---- MODULE Spec2Model ----
(***************************************************************************)
(* A model of JasonParser (src/JasonParser.h): the recursive-descent JSON  *)
(* reader that drives a JasonBuilder.  The parser is a step machine: pc is *)
(* the position in the code, stack the chain of callers of parseJson /     *)
(* parseString, buf the Builder's byte buffer (_b._start[0 .. _b._pos)).   *)
(* Bytes are their numeric values; 64-bit unsigned integers are four       *)
(* 16-bit limbs (least significant first) so that uint64_t arithmetic      *)
(* wraps as it does in the build.                                          *)
(***************************************************************************)
EXTENDS Integers, Sequences, FiniteSets, TLC

VARIABLES
  input,    \* the bytes handed to parse(): _start[0 .. _size)
  multi,    \* the multi argument of parse()
  pos,      \* _pos
  pc,       \* position in the parser's code / "idle" / "done" / "error"
  msg,      \* what() of the JasonParserError thrown, "" if none
  nr,       \* parseInternal's nr
  stack,    \* open calls: <<[ret, base]>>, innermost last
  buf,      \* the Builder's buffer up to _b._pos
  bstack,   \* the Builder's stack of open containers
  calls,    \* the values and Builder calls issued so far, in order
  nm,       \* locals of parseNumber
  st,       \* locals of parseString
  prev,     \* what the parse() before this one on the same parser returned
  tb        \* the test of testsLarge.cpp in progress and its Builder

vars ==
  <<input, multi, pos, pc, msg, nr, stack, buf, bstack, calls, nm, st, prev,
    tb>>

----------------------------------------------------------------------------
(* Bounds of the model.                                                    *)

\* longest input drawn freely from Alphabet
MaxLen == 3
\* longest free digit tail appended to the integer-boundary prefixes
MaxTail == 2
\* most string units (escapes, literals, UTF-8 sequences) in a drawn string
MaxUnits == 3
\* longest run of literal bytes in a drawn long string
MaxRun == 129

----------------------------------------------------------------------------
(* Bytes.                                                                  *)

Size == Len(input)
At(p) == input[p + 1]

\* the message of each JasonParserError
ErrEOF == "expecting EOF"
ErrItem == "expecting item"
ErrValue == "value expected"
ErrNumber == "scanNumber: incomplete number"
ErrBounds == "numeric value out of bounds"
ErrTrue == "true expected"
ErrFalse == "false expected"
ErrNull == "null expected"
ErrUnfinished == "scanString: Unfinished string detected."
ErrUnfinishedU == "scanString: Unfinished \\uXXXX."
ErrHash == "scanString: Illegal hash digit."
ErrEscape == "scanString: Illegal \\ sequence."
ErrControl == "scanString: Found control character."
ErrUtf8Byte == "scanString: Illegal UTF-8 byte."
ErrUtf8Long == "scanString: Illegal 5- or 6-byte sequence found in UTF-8 string."
ErrUtf8Trunc == "scanString: truncated UTF-8 sequence"
ErrUtf8Seq == "scanString: invalid UTF-8 sequence"
ErrArrayItem == "scanArray: item or ] expected"
ErrArrayNext == "scanArray: , or ] expected"
ErrObjectItem == "scanObject: item or } expected"
ErrObjectKey == "scanObject: \" or } expected"
ErrObjectColon == "scanObject: : expected"
ErrObjectNext == "scanObject: , or } expected"

errorPos == IF pos > 0 THEN pos - 1 ELSE pos

isWhiteSpace(i) == i = 32 \/ i = 9 \/ i = 10 \/ i = 13

isDigit(i) == i >= 48 /\ i <= 57

\* the number of whitespace bytes at p, p+1, ... (at most remaining)
JSONSkipWhiteSpace(p, remaining) ==
  LET stops == {k \in 0..(remaining - 1) : ~isWhiteSpace(At(p + k))}
  IN IF stops = {} THEN remaining
     ELSE CHOOSE k \in stops : \A j \in stops : k <= j

\* peek(): the byte at p, -1 past the end
peek(p) == IF p >= Size THEN -1 ELSE At(p)

\* consume(): _pos after consuming at p
consume(p) == IF p >= Size THEN p ELSE p + 1

\* unconsume(): --_pos
unconsume(p) == p - 1

----------------------------------------------------------------------------
(* uint64_t as four 16-bit limbs, least significant first.                 *)

Limb == 65536
Zero64 == <<0, 0, 0, 0>>

\* x * m + a on the limbs of x, the carry out of the top limb dropped
RECURSIVE MulAdd(_, _, _, _)
MulAdd(x, i, m, a) ==
  IF i > Len(x) THEN <<>>
  ELSE LET t == x[i] * m + a
       IN <<t % Limb>> \o MulAdd(x, i + 1, m, t \div Limb)

\* x < y, both of the same number of limbs
RECURSIVE LimbsLess(_, _, _)
LimbsLess(x, y, i) ==
  IF i = 0 THEN FALSE
  ELSE IF x[i] # y[i] THEN x[i] < y[i]
  ELSE LimbsLess(x, y, i - 1)

\* 1844674407370955161ULL = 0x1999999999999999
OverflowThreshold == <<39321, 39321, 39321, 6553>>

----------------------------------------------------------------------------
(* ParsedNumber.  doubleValue is kept as the decimal digits it was built   *)
(* from (digits): the value of the double is their decimal value rounded.  *)

NewParsedNumber == [intValue |-> Zero64, isInteger |-> TRUE, digits |-> <<>>]

\* the most decimal digits a finite double can have before the point
MaxDoubleDigits == 309

\* addDigit with the guard one digit too wide
AddDigitWide(v, i) ==
  IF v.isInteger /\ (LimbsLess(v.intValue, OverflowThreshold, 4)
                      \/ (v.intValue = OverflowThreshold /\ i - 48 <= 6))
  THEN [v EXCEPT !.intValue = MulAdd(v.intValue, 1, 10, i - 48),
                 !.digits = Append(v.digits, i - 48)]
  ELSE [v EXCEPT !.isInteger = FALSE, !.digits = Append(v.digits, i - 48)]

\* addDigit(i); the result has isInteger, intValue and the digits fed
AddDigit(v, i) ==
  IF v.isInteger /\ (LimbsLess(v.intValue, OverflowThreshold, 4)
                      \/ (v.intValue = OverflowThreshold /\ i - 48 <= 5))
  THEN [v EXCEPT !.intValue = MulAdd(v.intValue, 1, 10, i - 48),
                 !.digits = Append(v.digits, i - 48)]
  ELSE [v EXCEPT !.isInteger = FALSE, !.digits = Append(v.digits, i - 48)]

\* addDigit throws when doubleValue stops being finite
AddDigitThrows(v) == ~v.isInteger /\ Len(v.digits) > MaxDoubleDigits

----------------------------------------------------------------------------
(* The machine: the variables a step may change, as one record.            *)

Cur ==
  [pos |-> pos, pc |-> pc, msg |-> msg, nr |-> nr, stack |-> stack,
   buf |-> buf, bstack |-> bstack, calls |-> calls, nm |-> nm, st |-> st]

Apply(r) ==
  /\ pos' = r.pos
  /\ pc' = r.pc
  /\ msg' = r.msg
  /\ nr' = r.nr
  /\ stack' = r.stack
  /\ buf' = r.buf
  /\ bstack' = r.bstack
  /\ calls' = r.calls
  /\ nm' = r.nm
  /\ st' = r.st
  /\ UNCHANGED <<input, multi, prev, tb>>

\* throw JasonParserError(m)
Throw(r, m) == [r EXCEPT !.pc = "error", !.msg = m]

Top(s) == s[Len(s)]
Pop(s) == SubSeq(s, 1, Len(s) - 1)

\* a value is complete: control is back in the caller on top of the stack
AfterValue(r) == [r EXCEPT !.pc = Top(r.stack).at]

----------------------------------------------------------------------------
(* JasonBuilder, as far as the parser uses it.  JasonBuilder.h is not      *)
(* among the sources: the byte encodings of the scalars and the container  *)
(* bookkeeping follow the specification's section 4.2.                     *)

TagNull == 24
TagFalse == 25
TagTrue == 26
TagDouble == 27
TagNegInt == 32
TagUInt == 40
TagSmallInt == 48
TagArray == 6
TagObject == 11

\* one entry of calls: the call, the nesting depth of the value it belongs
\* to and the input position it was issued at
Call(r, op) ==
  [op |-> op, depth |-> Len(r.bstack), end |-> r.pos, neg |-> FALSE,
   u64 |-> <<>>, ip |-> <<>>, fp |-> <<>>, eneg |-> FALSE, ep |-> <<>>,
   base |-> 0, len |-> 0]

\* the little-endian bytes of a limb sequence
RECURSIVE LimbBytes(_, _)
LimbBytes(x, i) ==
  IF i > Len(x) THEN <<>>
  ELSE <<x[i] % 256, x[i] \div 256>> \o LimbBytes(x, i + 1)

\* b without its most significant zero bytes, one byte at least
RECURSIVE Minimal(_)
Minimal(b) ==
  IF Len(b) > 1 /\ b[Len(b)] = 0 THEN Minimal(SubSeq(b, 1, Len(b) - 1)) ELSE b

Emit(r, call, bytes) ==
  [r EXCEPT !.buf = @ \o bytes, !.calls = Append(@, call)]

addNull(r) == Emit(r, Call(r, "addNull"), <<TagNull>>)
addTrue(r) == Emit(r, Call(r, "addTrue"), <<TagTrue>>)
addFalse(r) == Emit(r, Call(r, "addFalse"), <<TagFalse>>)

addUInt(r, v) ==
  LET b == Minimal(LimbBytes(v, 1))
  IN Emit(r, [Call(r, "addUInt") EXCEPT !.u64 = v],
          IF Len(b) = 1 /\ b[1] <= 9 THEN <<TagSmallInt + b[1]>>
          ELSE <<TagUInt + Len(b) - 1>> \o b)

addNegInt(r, v) ==
  LET b == Minimal(LimbBytes(v, 1))
  IN Emit(r, [Call(r, "addNegInt") EXCEPT !.u64 = v, !.neg = TRUE],
          <<TagNegInt + Len(b) - 1>> \o b)

\* d is the double as the parser computed it: sign, integer digits, fraction
\* digits, exponent.  The eight payload bytes (its IEEE 754 bits) are not
\* computed; the value is kept in calls.
addDouble(r, d) ==
  Emit(r, [Call(r, "addDouble") EXCEPT !.neg = d.neg, !.ip = d.ip, !.fp = d.fp,
                                    !.eneg = d.eneg, !.ep = d.ep],
       <<TagDouble, 0, 0, 0, 0, 0, 0, 0, 0>>)

addArray(r) ==
  [Emit(r, Call(r, "addArray"), <<TagArray>>) EXCEPT
     !.bstack = Append(@, [base |-> Len(r.buf), kind |-> "array", index |-> <<>>])]

addObject(r) ==
  [Emit(r, Call(r, "addObject"), <<TagObject>>) EXCEPT
     !.bstack = Append(@, [base |-> Len(r.buf), kind |-> "object", index |-> <<>>])]

\* reportAdd(base): the offset of the next child, relative to base
reportAdd(r, base) ==
  [r EXCEPT !.bstack[Len(r.bstack)].index = Append(@, Len(r.buf) - base),
            !.calls = Append(@, [Call(r, "reportAdd") EXCEPT !.base = base])]

\* close(): the innermost container is complete.  len is its number of
\* children; the header and index table are patched by code that is not
\* among the sources, the bytes are left as emitted.
close(r) ==
  [r EXCEPT !.bstack = Pop(@),
            !.calls = Append(@, [Call(r, "close") EXCEPT
                                   !.depth = Len(r.bstack) - 1,
                                   !.base = Top(r.bstack).base,
                                   !.len = Len(Top(r.bstack).index)])]

----------------------------------------------------------------------------
(* skipWhiteSpace(err): [r with _pos past the whitespace], or the throw.   *)

skipWhiteSpace(r, err) ==
  LET remaining == Size - r.pos
      count == JSONSkipWhiteSpace(r.pos, remaining)
  IN IF count < remaining
     THEN [r EXCEPT !.pos = r.pos + count]
     ELSE Throw([r EXCEPT !.pos = r.pos + count], err)

Thrown(r) == r.pc = "error"

\* line 677 without the throw at the end of the input
skipToItemNoThrow(r) ==
  [r EXCEPT !.pos = r.pos + JSONSkipWhiteSpace(r.pos, Size - r.pos)]

\* line 677: skipWhiteSpace("expecting item")
skipToItem(r) == skipWhiteSpace(r, ErrItem)

----------------------------------------------------------------------------
(* parse and parseInternal.                                                *)

NoNumber ==
  [numberValue |-> NewParsedNumber, negative |-> FALSE, fneg |-> FALSE,
   fractional |-> <<>>, exponent |-> NewParsedNumber]

NoString == [base |-> 0, large |-> FALSE, highSurrogate |-> 0]

\* no test of testsLarge.cpp is running
NoTest ==
  [test |-> "none", i |-> 0, at |-> "none", n |-> 0, size |-> Zero64,
   tag |-> 0, length |-> 0, found |-> FALSE]

\* no parse() was made before this one
NoPrev == [made |-> FALSE, json |-> <<>>, nr |-> 0, buf |-> <<>>]

\* the UTF-8 byte order mark at the start of the input
HasBOM == Size >= 3 /\ At(0) = 239 /\ At(1) = 187 /\ At(2) = 191

\* parse(json, multi) up to the first parseJson() of parseInternal
ParseEntry ==
  [pos |-> IF HasBOM THEN 3 ELSE 0, pc |-> "parseJson", msg |-> "", nr |-> 0,
   stack |-> <<[fn |-> "parseInternal", base |-> 0, at |-> "parseInternal"]>>,
   buf |-> <<>>, bstack |-> <<>>, calls |-> <<>>, nm |-> NoNumber,
   st |-> NoString]

\* parseInternal's loop body without the consume() before the throw
ParseInternalNoConsume(r) ==
  LET n == JSONSkipWhiteSpace(r.pos, Size - r.pos)
      q == [r EXCEPT !.nr = r.nr + 1, !.pos = r.pos + n]
  IN IF ~multi /\ q.pos # Size
     THEN Throw(q, ErrEOF)
     ELSE IF multi /\ q.pos < Size
     THEN [q EXCEPT !.pc = "parseJson"]
     ELSE [q EXCEPT !.pc = "done", !.stack = Pop(r.stack)]

\* parseInternal's loop body with nr++ only before the return
ParseInternalCountsLast(r) ==
  LET n == JSONSkipWhiteSpace(r.pos, Size - r.pos)
      q == [r EXCEPT !.pos = r.pos + n]
  IN IF ~multi /\ q.pos # Size
     THEN Throw([q EXCEPT !.pos = consume(q.pos)], ErrEOF)
     ELSE IF multi /\ q.pos < Size
     THEN [q EXCEPT !.pc = "parseJson"]
     ELSE [q EXCEPT !.nr = r.nr + 1, !.pc = "done", !.stack = Pop(r.stack)]

\* parseInternal after parseJson() returned: nr++, skip the whitespace, then
\* throw, loop or return nr
ParseInternalLoop(r) ==
  LET n == JSONSkipWhiteSpace(r.pos, Size - r.pos)
      q == [r EXCEPT !.nr = r.nr + 1, !.pos = r.pos + n]
  IN IF ~multi /\ q.pos # Size
     THEN Throw([q EXCEPT !.pos = consume(q.pos)], ErrEOF)
     ELSE IF multi /\ q.pos < Size
     THEN [q EXCEPT !.pc = "parseJson"]
     ELSE [q EXCEPT !.pc = "done", !.stack = Pop(r.stack)]

----------------------------------------------------------------------------
(* parseTrue, parseFalse, parseNull.                                       *)

\* consume() != w[1] || consume() != w[2] || ...: the position after the
\* last consume() made, and whether every byte matched
RECURSIVE ConsumeWord(_, _, _)
ConsumeWord(p, w, k) ==
  IF k > Len(w) THEN [ok |-> TRUE, pos |-> p]
  ELSE IF peek(p) # w[k] THEN [ok |-> FALSE, pos |-> consume(p)]
  ELSE ConsumeWord(p + 1, w, k + 1)

parseTrue(r) ==
  LET c == ConsumeWord(r.pos, <<114, 117, 101>>, 1)
      q == [r EXCEPT !.pos = c.pos]
  IN IF c.ok THEN AfterValue(addTrue(q)) ELSE Throw(q, ErrTrue)

parseFalse(r) ==
  LET c == ConsumeWord(r.pos, <<97, 108, 115, 101>>, 1)
      q == [r EXCEPT !.pos = c.pos]
  IN IF c.ok THEN AfterValue(addFalse(q)) ELSE Throw(q, ErrFalse)

parseNull(r) ==
  LET c == ConsumeWord(r.pos, <<117, 108, 108>>, 1)
      q == [r EXCEPT !.pos = c.pos]
  IN IF c.ok THEN AfterValue(addNull(q)) ELSE Throw(q, ErrNull)

----------------------------------------------------------------------------
(* parseNumber, in the steps between its loops.                            *)

\* lines 292-308: the sign and the first digit
parseNumberBegin(r) ==
  LET i0 == peek(r.pos)
      p0 == consume(r.pos)
      neg == (i0 = 45)
      i == IF neg THEN peek(p0) ELSE i0
      p == IF neg THEN consume(p0) ELSE p0
      q == [r EXCEPT !.pos = p, !.nm = [NoNumber EXCEPT !.negative = neg]]
  IN IF neg /\ i < 0 THEN Throw([q EXCEPT !.nm = NoNumber], ErrNumber)
     ELSE IF ~isDigit(i) THEN Throw(q, ErrValue)
     ELSE IF i # 48 THEN [q EXCEPT !.pos = unconsume(p), !.pc = "scanDigits"]
     ELSE [q EXCEPT !.pc = "numberPoint"]

\* scanDigits with unconsume() also after a consume() that returned -1
scanDigitsUnconsumeAtEnd(r) ==
  LET i == peek(r.pos)
      p == consume(r.pos)
      isExp == (r.pc = "scanExponent")
      back == IF isExp THEN "numberScale" ELSE "numberPoint"
      v == AddDigit(IF isExp THEN r.nm.exponent ELSE r.nm.numberValue, i)
  IN IF i < 0 \/ ~isDigit(i) THEN [r EXCEPT !.pos = unconsume(p), !.pc = back]
     ELSE IF AddDigitThrows(v) THEN Throw([r EXCEPT !.pos = p], ErrBounds)
     ELSE IF isExp THEN [r EXCEPT !.pos = p, !.nm.exponent = v]
     ELSE [r EXCEPT !.pos = p, !.nm.numberValue = v]

\* one round of the loop of scanDigits(value); value is numberValue at
\* "scanDigits" and exponent at "scanExponent"
scanDigits(r) ==
  LET i == peek(r.pos)
      p == consume(r.pos)
      isExp == (r.pc = "scanExponent")
      back == IF isExp THEN "numberScale" ELSE "numberPoint"
      v == AddDigit(IF isExp THEN r.nm.exponent ELSE r.nm.numberValue, i)
  IN IF i < 0 THEN [r EXCEPT !.pc = back]
     ELSE IF ~isDigit(i) THEN [r EXCEPT !.pos = unconsume(p), !.pc = back]
     ELSE IF AddDigitThrows(v) THEN Throw([r EXCEPT !.pos = p], ErrBounds)
     ELSE IF isExp THEN [r EXCEPT !.pos = p, !.nm.exponent = v]
     ELSE [r EXCEPT !.pos = p, !.nm.numberValue = v]

\* the double handed to addDouble on line 315: numberValue.doubleValue
PromotedDouble(n) ==
  [neg |-> FALSE, ip |-> n.numberValue.digits, fp |-> <<>>, eneg |-> FALSE,
   ep |-> <<>>]

\* lines 314-322: a number with neither fraction nor exponent
EmitInteger(r) ==
  IF ~r.nm.numberValue.isInteger THEN addDouble(r, PromotedDouble(r.nm))
  ELSE IF r.nm.negative THEN addNegInt(r, r.nm.numberValue.intValue)
  ELSE addUInt(r, r.nm.numberValue.intValue)

\* lines 309-329: after the integer part
parseNumberPoint(r) ==
  LET i == peek(r.pos)
      p == consume(r.pos)
      j == peek(p)
      pj == consume(p)
  IN IF i # 46
     THEN AfterValue(EmitInteger([r EXCEPT !.pos = IF i >= 0 THEN unconsume(p) ELSE p]))
     ELSE IF j < 0 THEN Throw([r EXCEPT !.pos = pj], ErrNumber)
     ELSE IF ~isDigit(j) THEN Throw([r EXCEPT !.pos = pj], ErrNumber)
     ELSE [r EXCEPT !.pos = unconsume(pj), !.pc = "scanFractional"]

\* one round of the loop of scanDigitsFractional()
scanDigitsFractional(r) ==
  LET i == peek(r.pos)
      p == consume(r.pos)
  IN IF i < 0 THEN [r EXCEPT !.pc = "numberExponent"]
     ELSE IF ~isDigit(i) THEN [r EXCEPT !.pos = unconsume(p), !.pc = "numberExponent"]
     ELSE [r EXCEPT !.pos = p, !.nm.fractional = Append(@, i - 48)]

\* fractionalPart after lines 331-336, as handed to addDouble
FractionalDouble(n) ==
  [neg |-> n.fneg, ip |-> n.numberValue.digits, fp |-> n.fractional,
   eneg |-> FALSE, ep |-> <<>>]

\* lines 331-356: the sign of fractionalPart, then the exponent's head
parseNumberExponent(r) ==
  LET q == [r EXCEPT !.nm.fneg = r.nm.negative]
      i == peek(q.pos)
      p == consume(q.pos)
      s == peek(p)
      ps == consume(p)
      signed == (s = 43 \/ s = 45)
      d == IF signed THEN peek(ps) ELSE s
      pd == IF signed THEN consume(ps) ELSE ps
      e == [q EXCEPT !.pos = pd, !.nm.negative = (s = 45)]
  IN IF i < 0 THEN AfterValue(addDouble(q, FractionalDouble(q.nm)))
     ELSE IF i # 101 /\ i # 69
     THEN AfterValue(addDouble([q EXCEPT !.pos = unconsume(p)], FractionalDouble(q.nm)))
     ELSE IF s < 0 THEN Throw([q EXCEPT !.pos = ps], ErrNumber)
     ELSE IF signed /\ d < 0 THEN Throw(e, ErrNumber)
     ELSE IF ~isDigit(d) THEN Throw(e, ErrNumber)
     ELSE [e EXCEPT !.pos = unconsume(pd), !.pc = "scanExponent"]

\* the value of a digit sequence, capped at 1000
RECURSIVE DigitsValue(_, _, _)
DigitsValue(d, k, acc) ==
  IF k > Len(d) \/ acc >= 1000 THEN acc
  ELSE DigitsValue(d, k + 1, acc * 10 + d[k])

\* d without its leading zeros
RECURSIVE Significant(_)
Significant(d) ==
  IF Len(d) > 0 /\ d[1] = 0 THEN Significant(Tail(d)) ELSE d

\* d1 >= d2 digit by digit, a missing digit counting as 0
RECURSIVE DigitsAtLeast(_, _, _)
DigitsAtLeast(d1, d2, k) ==
  IF k > Len(d2) THEN TRUE
  ELSE LET a == IF k <= Len(d1) THEN d1[k] ELSE 0
       IN IF a # d2[k] THEN a > d2[k] ELSE DigitsAtLeast(d1, d2, k + 1)

\* the decimal exponent of the largest finite double, and the leading digits
\* from which a value of that exponent rounds to infinity
MaxDoubleExp == 308
MaxDoubleLead == <<1, 7, 9, 7, 6, 9, 3, 1, 3, 4, 8, 6, 2, 3, 1, 5, 8, 1>>

\* lines 359-367: fractionalPart * pow(10, +-exponent) is NaN or infinite
ScaleNotFinite(n) ==
  LET e == DigitsValue(n.exponent.digits, 1, 0)
      m == Significant(n.numberValue.digits \o n.fractional)
      lead == Len(n.numberValue.digits)
  IN /\ ~n.negative
     /\ \/ e > MaxDoubleExp
        \/ Len(m) > 0 /\ lead > 0 /\ lead - 1 + e > MaxDoubleExp
        \/ Len(m) > 0 /\ lead > 0 /\ lead - 1 + e = MaxDoubleExp
                      /\ DigitsAtLeast(m, MaxDoubleLead, 1)

\* lines 359-368: scale by the exponent and emit
parseNumberScale(r) ==
  IF ScaleNotFinite(r.nm) THEN Throw(r, ErrBounds)
  ELSE AfterValue(addDouble(r, [FractionalDouble(r.nm) EXCEPT
                                   !.eneg = r.nm.negative,
                                   !.ep = r.nm.exponent.digits]))

----------------------------------------------------------------------------
(* parseString.                                                            *)

\* JSONStringCopy(d, s, limit): the number of bytes copied from p on, up to
\* the first quote, backslash or control byte and at most limit
JSONStringCopy(p, limit) ==
  LET stops == {k \in 0..(limit - 1) :
                  At(p + k) = 34 \/ At(p + k) = 92 \/ At(p + k) < 32}
  IN IF stops = {} THEN limit
     ELSE CHOOSE k \in stops : \A j \in stops : k <= j

\* the bytes p .. p+n-1 of the input
Bytes(p, n) == SubSeq(input, p + 1, p + n)

\* the remainder from which the loop copies in bulk
BulkMin == 16
\* the longest payload of a short string
ShortMax == 127

\* lines 390-395: the tag placeholder and the locals
parseStringBegin(r) ==
  [r EXCEPT !.buf = Append(r.buf, 64),
            !.st = [base |-> Len(r.buf), large |-> FALSE, highSurrogate |-> 0],
            !.pc = "parseString"]

\* lines 401-409: the bulk copy when at least 16 bytes remain
BulkCopy(r) ==
  LET remainder == Size - r.pos
      count == JSONStringCopy(r.pos, remainder)
  IN IF remainder >= BulkMin
     THEN [r EXCEPT !.pos = r.pos + count, !.buf = r.buf \o Bytes(r.pos, count)]
     ELSE r

\* lines 411-417: memmove of the payload eight bytes forward; the eight
\* bytes at base+1 .. base+8 keep what they held
Promote(r) ==
  LET base == r.st.base
  IN IF ~r.st.large /\ Len(r.buf) - (base + 1) > ShortMax
     THEN [r EXCEPT !.st.large = TRUE,
                    !.buf = SubSeq(r.buf, 1, base + 9)
                              \o SubSeq(r.buf, base + 2, Len(r.buf))]
     ELSE r

\* the n low bytes of len, least significant first
RECURSIVE LittleEndian(_, _)
LittleEndian(len, n) ==
  IF n = 0 THEN <<>> ELSE <<len % 256>> \o LittleEndian(len \div 256, n - 1)

\* s with the bytes b written at offset p
Patch(s, p, b) ==
  [k \in 1..Len(s) |-> IF k > p /\ k <= p + Len(b) THEN b[k - p] ELSE s[k]]

\* lines 420-435: the closing quote
FinishString(r) ==
  LET base == r.st.base
      len == IF r.st.large THEN Len(r.buf) - (base + 9) ELSE Len(r.buf) - (base + 1)
      head == IF r.st.large THEN <<12>> \o LittleEndian(len, 8)
              ELSE <<(64 + (len % 256)) % 256>>
  IN AfterValue([r EXCEPT !.buf = Patch(r.buf, base, head),
                          !.calls = Append(@, [Call(r, "string") EXCEPT
                                                 !.base = base, !.len = len])])

\* the value of a hex digit, -1 for any other byte
HexValue(i) ==
  IF i >= 48 /\ i <= 57 THEN i - 48
  ELSE IF i >= 97 /\ i <= 102 THEN i - 97 + 10
  ELSE IF i >= 65 /\ i <= 70 THEN i - 65 + 10
  ELSE -1

\* lines 476-494: the four hex digits at p; v, or the throw, and _pos
RECURSIVE ReadHex(_, _, _)
ReadHex(p, j, v) ==
  IF j = 4 THEN [ok |-> TRUE, v |-> v, pos |-> p, err |-> ""]
  ELSE IF peek(p) < 0 THEN [ok |-> FALSE, v |-> v, pos |-> p, err |-> ErrUnfinishedU]
  ELSE IF HexValue(peek(p)) < 0
  THEN [ok |-> FALSE, v |-> v, pos |-> p + 1, err |-> ErrHash]
  ELSE ReadHex(p + 1, j + 1, v * 16 + HexValue(peek(p)))

Utf8Of2(v) == <<192 + (v \div 64), 128 + (v % 64)>>
Utf8Of3(v) == <<224 + (v \div 4096), 128 + ((v \div 64) % 64), 128 + (v % 64)>>
Utf8Of4(v) ==
  <<240 + (v \div 262144), 128 + ((v \div 4096) % 64), 128 + ((v \div 64) % 64),
    128 + (v % 64)>>

Put(r, bytes) == [r EXCEPT !.buf = r.buf \o bytes]

\* lines 509-510: the code point of a surrogate pair
Combine(hi, lo) == 65536 + ((hi - 55296) * 1024) + lo - 56320

\* lines 495-531: the code unit v of a \uXXXX escape
UnicodeEscape(r, v) ==
  IF v < 128 THEN [Put(r, <<v>>) EXCEPT !.st.highSurrogate = 0]
  ELSE IF v < 2048 THEN [Put(r, Utf8Of2(v)) EXCEPT !.st.highSurrogate = 0]
  ELSE IF v >= 56320 /\ v < 57344 /\ r.st.highSurrogate # 0
  THEN [r EXCEPT !.buf = SubSeq(r.buf, 1, Len(r.buf) - 3)
                           \o Utf8Of4(Combine(r.st.highSurrogate, v)),
                 !.st.highSurrogate = 0]
  ELSE [Put(r, Utf8Of3(v)) EXCEPT
          !.st.highSurrogate = IF v >= 55296 /\ v < 56320 THEN v ELSE 0]

\* lines 438-536: the byte after a backslash
Escape(r) ==
  LET i == peek(r.pos)
      q == [r EXCEPT !.pos = consume(r.pos)]
      h == ReadHex(q.pos, 0, 0)
      one(b) == [Put(q, <<b>>) EXCEPT !.st.highSurrogate = 0]
  IN IF i < 0 THEN Throw(q, ErrUnfinished)
     ELSE IF i = 34 \/ i = 47 \/ i = 92 THEN one(i)
     ELSE IF i = 98 THEN one(8)
     ELSE IF i = 102 THEN one(12)
     ELSE IF i = 110 THEN one(10)
     ELSE IF i = 114 THEN one(13)
     ELSE IF i = 116 THEN one(9)
     ELSE IF i = 117
     THEN IF h.ok THEN UnicodeEscape([q EXCEPT !.pos = h.pos], h.v)
          ELSE Throw([q EXCEPT !.pos = h.pos], h.err)
     ELSE Throw(q, ErrEscape)

\* lines 574-580: the follow bytes of a UTF-8 sequence
RECURSIVE FollowBytes(_, _)
FollowBytes(r, follow) ==
  IF follow = 0 THEN [r EXCEPT !.st.highSurrogate = 0]
  ELSE LET i == peek(r.pos)
           q == [r EXCEPT !.pos = consume(r.pos)]
       IN IF i < 0 THEN Throw(q, ErrUtf8Trunc)
          ELSE IF (i \div 64) * 64 # 128 THEN Throw(q, ErrUtf8Seq)
          ELSE FollowBytes(Put(q, <<i>>), follow - 1)

\* lines 538-583 with the control byte let through
LiteralNoControlCheck(r, i) ==
  IF i < 128
  THEN [Put(r, <<i>>) EXCEPT !.st.highSurrogate = 0]
  ELSE IF (i \div 32) * 32 = 128 THEN Throw(r, ErrUtf8Byte)
  ELSE IF (i \div 32) * 32 = 192 THEN FollowBytes(Put(r, <<i>>), 1)
  ELSE IF (i \div 16) * 16 = 224 THEN FollowBytes(Put(r, <<i>>), 2)
  ELSE IF (i \div 8) * 8 = 240 THEN FollowBytes(Put(r, <<i>>), 3)
  ELSE Throw(r, ErrUtf8Long)

\* lines 538-583: a byte that is neither quote nor backslash
Literal(r, i) ==
  IF i < 128
  THEN IF i < 32 THEN Throw(r, ErrControl)
       ELSE [Put(r, <<i>>) EXCEPT !.st.highSurrogate = 0]
  ELSE IF (i \div 32) * 32 = 128 THEN Throw(r, ErrUtf8Byte)
  ELSE IF (i \div 32) * 32 = 192 THEN FollowBytes(Put(r, <<i>>), 1)
  ELSE IF (i \div 16) * 16 = 224 THEN FollowBytes(Put(r, <<i>>), 2)
  ELSE IF (i \div 8) * 8 = 240 THEN FollowBytes(Put(r, <<i>>), 3)
  ELSE Throw(r, ErrUtf8Long)

\* lines 397-584: one round of the loop of parseString
parseStringLoop(r) ==
  LET b == BulkCopy(r)
      i == peek(b.pos)
      q == Promote([b EXCEPT !.pos = consume(b.pos)])
  IN IF i < 0 THEN Throw(b, ErrUnfinished)
     ELSE IF i = 34 THEN FinishString(q)
     ELSE IF i = 92 THEN Escape(q)
     ELSE Literal(q, i)

----------------------------------------------------------------------------
(* parseArray and parseObject.                                             *)

Frame(fn, base, at) == [fn |-> fn, base |-> base, at |-> at]

\* lines 600-614: up to the first element
parseArrayBegin(r) ==
  LET base == Len(r.buf)
      q == skipWhiteSpace(addArray(r), ErrArrayItem)
  IN IF Thrown(q) THEN q
     ELSE IF At(q.pos) = 93
     THEN AfterValue(close([q EXCEPT !.pos = q.pos + 1]))
     ELSE [reportAdd(q, base) EXCEPT
             !.stack = Append(@, Frame("parseArray", base, "parseArrayNext")),
             !.pc = "parseJson"]

\* parseArrayNext without the reportAdd for the elements after the first
parseArrayNextNoReport(r) ==
  LET base == Top(r.stack).base
      q == skipWhiteSpace(r, ErrArrayNext)
  IN IF Thrown(q) THEN q
     ELSE IF At(q.pos) = 93
     THEN AfterValue(close([q EXCEPT !.pos = q.pos + 1, !.stack = Pop(q.stack)]))
     ELSE IF At(q.pos) # 44 THEN Throw(q, ErrArrayNext)
     ELSE [q EXCEPT !.pos = q.pos + 1, !.pc = "parseJson"]

\* lines 615-626 and 613-614: after an element
parseArrayNext(r) ==
  LET base == Top(r.stack).base
      q == skipWhiteSpace(r, ErrArrayNext)
  IN IF Thrown(q) THEN q
     ELSE IF At(q.pos) = 93
     THEN AfterValue(close([q EXCEPT !.pos = q.pos + 1, !.stack = Pop(q.stack)]))
     ELSE IF At(q.pos) # 44 THEN Throw(q, ErrArrayNext)
     ELSE [reportAdd([q EXCEPT !.pos = q.pos + 1], base) EXCEPT !.pc = "parseJson"]

\* lines 631-640: up to the first attribute name
parseObjectBegin(r) ==
  LET base == Len(r.buf)
      q == skipWhiteSpace(addObject(r), ErrObjectItem)
  IN IF Thrown(q) THEN q
     ELSE IF At(q.pos) = 125
     THEN AfterValue(close([q EXCEPT !.pos = consume(q.pos)]))
     ELSE [q EXCEPT !.stack = Append(@, Frame("parseObject", base, "parseObjectKey")),
                    !.pc = "parseObjectKey"]

\* lines 643-651: the attribute name; i is the byte at _pos
parseObjectKey(r) ==
  LET base == Top(r.stack).base
  IN IF At(r.pos) # 34 THEN Throw(r, ErrObjectKey)
     ELSE parseStringBegin(
            [reportAdd([r EXCEPT !.pos = r.pos + 1], base) EXCEPT
               !.stack[Len(r.stack)].at = "parseObjectColon"])

\* lines 652-659: the colon
parseObjectColon(r) ==
  LET q == skipWhiteSpace(r, ErrObjectColon)
  IN IF Thrown(q) THEN q
     ELSE IF At(q.pos) # 58 THEN Throw(q, ErrObjectColon)
     ELSE [q EXCEPT !.pos = q.pos + 1,
                    !.stack[Len(r.stack)].at = "parseObjectNext",
                    !.pc = "parseJson"]

\* lines 660-672: after an attribute value
parseObjectNext(r) ==
  LET q == skipWhiteSpace(r, ErrObjectNext)
      n == skipWhiteSpace([q EXCEPT !.pos = q.pos + 1], ErrObjectKey)
  IN IF Thrown(q) THEN q
     ELSE IF At(q.pos) = 125
     THEN AfterValue(close([q EXCEPT !.pos = q.pos + 1, !.stack = Pop(q.stack)]))
     ELSE IF At(q.pos) # 44 THEN Throw(q, ErrObjectNext)
     ELSE IF Thrown(n) THEN n
     ELSE [n EXCEPT !.pc = "parseObjectKey"]

----------------------------------------------------------------------------
(* parseJson.                                                              *)

\* lines 677-709: skip the whitespace and dispatch on the first byte
parseJson(r) ==
  LET w == skipToItem(r)
      i == peek(w.pos)
      q == [w EXCEPT !.pos = consume(w.pos)]
  IN IF Thrown(w) THEN w
     ELSE IF i < 0 THEN AfterValue(q)
     ELSE IF i = 123 THEN [q EXCEPT !.pc = "parseObject"]
     ELSE IF i = 91 THEN [q EXCEPT !.pc = "parseArray"]
     ELSE IF i = 116 THEN [q EXCEPT !.pc = "parseTrue"]
     ELSE IF i = 102 THEN [q EXCEPT !.pc = "parseFalse"]
     ELSE IF i = 110 THEN [q EXCEPT !.pc = "parseNull"]
     ELSE IF i = 34 THEN parseStringBegin(q)
     ELSE [q EXCEPT !.pos = unconsume(q.pos), !.pc = "parseNumber"]

----------------------------------------------------------------------------
(* The inputs handed to parse().                                           *)

\* well-formed texts, among them the scenarios of the specification
Documents ==
  { <<123, 34, 97, 34, 58, 49, 50, 125>>,
    <<91, 93>>,
    <<123, 125>>,
    <<34, 104, 101, 108, 108, 111, 92, 110, 119, 111, 114, 108, 100, 34>>,
    <<123, 34, 98, 34, 58, 50, 44, 34, 97, 34, 58, 49, 125>>,
    <<91, 49, 44, 32, 50, 93>>,
    <<49, 32, 50, 32, 51>>,
    <<116, 114, 117, 101>>,
    <<102, 97, 108, 115, 101>>,
    <<110, 117, 108, 108>>,
    <<32, 91, 32, 116, 114, 117, 101, 32, 44, 32, 110, 117, 108, 108, 32, 93, 32>>,
    <<123, 34, 97, 34, 58, 91, 49, 44, 123, 34, 98, 34, 58, 110, 117, 108, 108, 125, 93, 125>>,
    <<49, 46, 53, 101, 50>>,
    <<49, 46, 53, 101, 45, 50>>,
    <<49, 46, 53, 69, 43, 50>>,
    <<48>>,
    <<45, 48>>,
    <<45, 53>>,
    <<45, 48, 46, 48>>,
    <<45, 49, 46, 53, 101, 50>>,
    <<49, 50, 32, 91, 93, 32, 34, 120, 34>>,
    <<91, 49, 93, 91, 50, 93>>,
    <<32, 9, 13, 10, 49, 32>>,
    <<45, 49, 56, 52, 52, 54, 55, 52, 52, 48, 55, 51, 55, 48, 57, 53, 53, 49, 54, 49, 53>>,
    <<34, 92, 117, 68, 56, 51, 52, 92, 117, 68, 68, 49, 69, 34>>,
    <<34, 92, 117, 48, 48, 101, 57, 92, 117, 50, 48, 65, 67, 34>>,
    <<34, 92, 34, 92, 47, 92, 92, 92, 98, 92, 102, 92, 114, 92, 116, 34>> }

\* truncated and ill-formed texts
Malformed ==
  { <<116, 114, 117>>,
    <<110, 117, 108>>,
    <<102, 97, 108, 115>>,
    <<116, 114, 117, 120>>,
    <<91, 49, 32, 50, 93>>,
    <<123, 34, 97, 34, 32, 49, 125>>,
    <<123, 34, 97, 34, 58, 49, 32, 34, 98, 34, 125>>,
    <<91>>,
    <<123>>,
    <<123, 34, 97, 34>>,
    <<123, 34, 97, 34, 58>>,
    <<123, 34, 97, 34, 58, 49>>,
    <<123, 34, 97, 34, 58, 49, 44>>,
    <<49, 46, 53, 101>>,
    <<49, 46, 53, 101, 43>>,
    <<49, 46, 53, 101, 120>>,
    <<49, 46, 53, 101, 43, 120>>,
    <<45>>,
    <<49, 46, 48, 101, 51, 48, 57>>,
    <<48, 46, 48, 101, 57, 57, 57>>,
    <<34, 92, 113, 34>>,
    <<34, 92, 117, 49, 50, 34>>,
    <<34, 92, 117, 49, 50, 71, 52, 34>>,
    <<34, 97, 98, 99>>,
    <<34, 92>>,
    <<49, 32, 120>>,
    <<91, 93, 32, 93>>,
    <<34, 97, 34, 32, 34, 98>>,
    <<248>>,
    <<34, 248, 34>>,
    <<34, 226, 130, 34>>,
    <<34, 226, 130, 172, 34>>,
    <<34, 240, 157, 132, 158, 34>>,
    <<34, 226, 40, 172, 34>>,
    <<34, 128, 34>>,
    <<34, 191, 34>>,
    <<34, 195>>,
    <<34, 195, 1, 34>>,
    <<>>,
    <<32>>,
    <<32, 32>> }

\* texts with a construct the specification lists as rejected: a trailing comma,
\* single quotes, an unquoted key, a comment, hex, leading zero, leading plus,
\* a bare .5 or 5., two decimal points
Rejected ==
  { <<91, 49, 44, 93>>,
    <<123, 34, 97, 34, 58, 49, 44, 125>>,
    <<39, 97, 39>>,
    <<123, 97, 58, 49, 125>>,
    <<47, 47, 99, 10, 49>>,
    <<47, 42, 99, 42, 47, 49>>,
    <<49, 32, 47, 47, 99>>,
    <<48, 120, 49, 48>>,
    <<48, 49, 48>>,
    <<43, 49>>,
    <<46, 53>>,
    <<53, 46>>,
    <<49, 46, 50, 46, 51>>,
    <<91, 48, 49, 48, 93>>,
    <<91, 46, 53, 93>>,
    <<91, 53, 46, 93>>,
    <<91, 43, 49, 93>>,
    <<91, 48, 120, 49, 48, 93>>,
    <<91, 49, 46, 50, 46, 51, 93>>,
    <<45, 48, 49, 48>>,
    <<45, 46, 53>>,
    <<53, 46, 101, 49>>,
    <<91, 49, 44, 50, 44, 93>>,
    <<123, 39, 97, 39, 58, 49, 125>>,
    <<123, 34, 97, 34, 58, 49, 125, 47, 47, 99>>,
    <<91, 49, 93, 47, 42, 42, 47>>,
    <<32, 48, 49, 48>>,
    <<48, 49, 48, 32>> }

\* integer part directly followed by an exponent part
ExponentLiterals ==
  { <<49, 101, 53>>,
    <<45, 50, 69, 43, 51>>,
    <<48, 101, 48>>,
    <<49, 69, 53>>,
    <<49, 50, 101, 45, 49>>,
    <<91, 49, 101, 53, 93>>,
    <<123, 34, 97, 34, 58, 49, 101, 53, 125>>,
    <<49, 101, 53, 32>> }

BOM == <<239, 187, 191>>

\* every sequence over S of length at most n
SeqsUpTo(S, n) == UNION {[1..k -> S] : k \in 0..n}

\* the sequences of f, one after the other
RECURSIVE Flatten(_)
Flatten(f) == IF Len(f) = 0 THEN <<>> ELSE Head(f) \o Flatten(Tail(f))

\* n times the byte b
Run(b, n) == [k \in 1..n |-> b]

\* space, quote, comma, minus, point, 0, 1, colon and the four brackets
Alphabet == {32, 34, 44, 45, 46, 48, 49, 58, 91, 93, 123, 125}

FreeInputs == SeqsUpTo(Alphabet, MaxLen)

\* the ASCII digits of a sequence of digit values
Dec(d) == [k \in 1..Len(d) |-> 48 + d[k]]

\* 18-digit heads around 1844674407370955161 and 2^64
BoundaryHeads ==
  { <<1, 8, 4, 4, 6, 7, 4, 4, 0, 7, 3, 7, 0, 9, 5, 5, 1, 6>>,
    <<1, 8, 4, 4, 6, 7, 4, 4, 0, 7, 3, 7, 0, 9, 5, 5, 1, 5>>,
    <<9, 9, 9, 9, 9, 9, 9, 9, 9, 9, 9, 9, 9, 9, 9, 9, 9, 9>> }

TailDigits == {0, 1, 5, 6}

\* an optional minus, a head, a free tail of digits, an optional fraction
NumberInputs ==
  { sign \o Dec(h \o t) \o frac :
      sign \in {<<>>, <<45>>}, h \in BoundaryHeads,
      t \in SeqsUpTo(TailDigits, MaxTail), frac \in {<<>>, <<46, 53>>} }

HexChar(d) == IF d < 10 THEN 48 + d ELSE 55 + d

\* the escape \uXXXX of the code unit v
EscapeOf(v) ==
  <<92, 117, HexChar(v \div 4096), HexChar((v \div 256) % 16),
    HexChar((v \div 16) % 16), HexChar(v % 16)>>

\* what a drawn string is made of: a, e-acute in UTF-8, \n, the escapes
\* \uD834, \uDD1E, \uDC00 and \u20AC, a control byte and a lone UTF-8 leader
Units ==
  { <<97>>, <<195, 169>>, <<92, 110>>,
    EscapeOf(55348), EscapeOf(56606), EscapeOf(56320), EscapeOf(8364),
    <<1>>, <<195>> }

\* the text around a string: top level, top level followed by whitespace
\* enough for the bulk copy to run inside the string, array element followed
\* by as much, attribute name
Contexts ==
  { [open |-> <<>>, shut |-> <<>>],
    [open |-> <<>>, shut |-> Run(32, BulkMin)],
    [open |-> <<91>>, shut |-> Run(32, BulkMin) \o <<93>>],
    [open |-> <<123>>, shut |-> <<58, 48, 125>>] }

StringInputs ==
  { c.open \o <<34>> \o Flatten(u) \o <<34>> \o c.shut :
      c \in Contexts, u \in SeqsUpTo(Units, MaxUnits) }

\* strings with a byte of the form 10xxxxxx where a character starts: the
\* least and the greatest such byte with bit 5 clear and with bit 5 set
StrayInputs ==
  { c.open \o <<34>> \o head \o <<b>> \o tail \o <<34>> \o c.shut :
      c \in Contexts, head \in {<<>>, <<97>>, <<195, 169>>},
      b \in {128, 159, 160, 191}, tail \in {<<>>, <<97>>} }

\* the shortest run of literal bytes in a drawn long string
MinRun == MaxRun - 9

\* long strings: a run of literal bytes, then a tail, top level or after
\* another array element
LongInputs ==
  { open \o <<34>> \o head \o Run(97, k) \o tail \o <<34>> :
      open \in {<<>>, <<91, 49, 44>>}, head \in {<<>>, <<92, 110>>},
      k \in MinRun..MaxRun,
      tail \in { <<>>, <<92, 110>>, <<195, 169>>, <<1>>,
                 EscapeOf(55348) \o EscapeOf(56606) } }

\* long strings whose last ten bytes are read one by one, and strings of
\* escapes only
SlowInputs ==
  { <<34>> \o Run(97, k) \o <<92, 110>> \o Run(97, 10) \o <<34>> :
      k \in (MinRun - 5)..(MaxRun - 10) }
  \cup { <<34>> \o [j \in 1..(2 * k) |-> IF j % 2 = 1 THEN 92 ELSE 110] \o <<34>> :
           k \in (MaxRun - 3)..MaxRun }

\* the calls parse(json, multi) of the model
Cases ==
  ((Documents \cup Malformed \cup Rejected \cup ExponentLiterals
      \cup {BOM \o d : d \in Documents \cup {<<>>, <<32>>}}
      \cup FreeInputs \cup NumberInputs) \X BOOLEAN)
  \cup ((StringInputs \cup LongInputs \cup SlowInputs \cup StrayInputs)
          \X {FALSE})

----------------------------------------------------------------------------
(* The specification.                                                      *)

Init ==
  /\ \E c \in Cases : input = c[1] /\ multi = c[2]
  /\ pos = 0
  /\ pc = "idle"
  /\ msg = ""
  /\ nr = 0
  /\ stack = <<>>
  /\ buf = <<>>
  /\ bstack = <<>>
  /\ calls = <<>>
  /\ nm = NoNumber
  /\ st = NoString
  /\ prev = NoPrev
  /\ tb = NoTest

Parse == pc = "idle" /\ Apply(ParseEntry)
ParseInternal == pc = "parseInternal" /\ Apply(ParseInternalLoop(Cur))
ParseJson == pc = "parseJson" /\ Apply(parseJson(Cur))
ParseTrue == pc = "parseTrue" /\ Apply(parseTrue(Cur))
ParseFalse == pc = "parseFalse" /\ Apply(parseFalse(Cur))
ParseNull == pc = "parseNull" /\ Apply(parseNull(Cur))
ParseNumber == pc = "parseNumber" /\ Apply(parseNumberBegin(Cur))
ScanDigits == pc \in {"scanDigits", "scanExponent"} /\ Apply(scanDigits(Cur))
ParseNumberPoint == pc = "numberPoint" /\ Apply(parseNumberPoint(Cur))
ScanDigitsFractional == pc = "scanFractional" /\ Apply(scanDigitsFractional(Cur))
ParseNumberExponent == pc = "numberExponent" /\ Apply(parseNumberExponent(Cur))
ParseNumberScale == pc = "numberScale" /\ Apply(parseNumberScale(Cur))
ParseString == pc = "parseString" /\ Apply(parseStringLoop(Cur))
ParseArray == pc = "parseArray" /\ Apply(parseArrayBegin(Cur))
ParseArrayNext == pc = "parseArrayNext" /\ Apply(parseArrayNext(Cur))
ParseObject == pc = "parseObject" /\ Apply(parseObjectBegin(Cur))
ParseObjectKey == pc = "parseObjectKey" /\ Apply(parseObjectKey(Cur))
ParseObjectColon == pc = "parseObjectColon" /\ Apply(parseObjectColon(Cur))
ParseObjectNext == pc = "parseObjectNext" /\ Apply(parseObjectNext(Cur))

Next ==
  \/ Parse
  \/ ParseInternal
  \/ ParseJson
  \/ ParseTrue
  \/ ParseFalse
  \/ ParseNull
  \/ ParseNumber
  \/ ScanDigits
  \/ ParseNumberPoint
  \/ ScanDigitsFractional
  \/ ParseNumberExponent
  \/ ParseNumberScale
  \/ ParseString
  \/ ParseArray
  \/ ParseArrayNext
  \/ ParseObject
  \/ ParseObjectKey
  \/ ParseObjectColon
  \/ ParseObjectNext

Spec == Init /\ [][Next]_vars

----------------------------------------------------------------------------
(* A second parse() on the same parser, of the first text with whitespace  *)
(* added where JSON allows it.                                             *)

\* well-formed texts with surrogate escapes and literals between them
SurrogateDocuments ==
  { <<34>> \o Flatten(u) \o <<34>> :
      u \in { <<EscapeOf(55348), <<97>>, EscapeOf(56320)>>,
              <<EscapeOf(55348), EscapeOf(56606)>>,
              <<EscapeOf(55348), <<195, 169>>>>,
              <<<<97>>, EscapeOf(56320)>> } }
  \cup { <<91, 34>> \o EscapeOf(55348) \o <<97, 34, 44, 49, 93>>,
         <<123, 34>> \o EscapeOf(55348) \o <<98>> \o EscapeOf(56320)
            \o <<34, 58, 34, 97, 34, 125>> }

WhitespaceDocuments ==
  Documents \cup SurrogateDocuments \cup {BOM \o <<91, 49, 93>>}

\* the indices of the bytes of string literals, their quotes included
RECURSIVE Quoted(_, _)
Quoted(p, open) ==
  IF p >= Size THEN {}
  ELSE IF ~open
  THEN (IF At(p) = 34 THEN {p} ELSE {}) \cup Quoted(p + 1, At(p) = 34)
  ELSE IF At(p) = 92 THEN {p, p + 1} \cup Quoted(p + 2, TRUE)
  ELSE {p} \cup Quoted(p + 1, At(p) # 34)

\* the indices g before which whitespace may be added: the start (after the
\* byte order mark), the end, and next to a bracket, brace, comma, colon or
\* whitespace byte outside the string literals
Gaps ==
  LET q == Quoted(0, FALSE)
      free == {k \in 0..(Size - 1) :
                 /\ k \notin q
                 /\ At(k) \in {91, 93, 123, 125, 44, 58, 32, 9, 10, 13}}
  IN {IF HasBOM THEN 3 ELSE 0, Size}
       \cup {g \in 0..Size : g \in free \/ g - 1 \in free}

\* the whitespace added: one byte of each kind, and a run that lets the
\* bulk copy start
Blanks == {<<32>>, <<9>>, <<10>>, <<13>>, Run(32, BulkMin), <<13, 10, 9, 32>>}

InitWhitespace == Init /\ input \in WhitespaceDocuments

\* parse(json', multi) after parse(json, multi) has returned: lines 101-106
\* set _start, _size and _pos and clear the Builder
Reparse ==
  /\ pc = "done" /\ ~prev.made
  /\ \E g \in Gaps, w \in Blanks :
        input' = SubSeq(input, 1, g) \o w \o SubSeq(input, g + 1, Size)
  /\ prev' = [made |-> TRUE, json |-> input, nr |-> nr, buf |-> buf]
  /\ pos' = 0 /\ pc' = "idle" /\ msg' = "" /\ nr' = 0 /\ stack' = <<>>
  /\ buf' = <<>> /\ bstack' = <<>> /\ calls' = <<>>
  /\ nm' = NoNumber /\ st' = NoString
  /\ UNCHANGED <<multi, tb>>

NextWhitespace == Next \/ Reparse

SpecWhitespace == InitWhitespace /\ [][NextWhitespace]_vars

----------------------------------------------------------------------------
(* The tests of testsLarge.cpp that close one container of many entries.   *)
(* JasonBuilder.h is not among the sources: what close() leaves is any     *)
(* layout of a header, the entries, an index table and a trailer, and the  *)
(* assertions of the test tell which layouts pass.                         *)

\* a JasonLength below 2^31 on limbs
LimbsOf(v) == <<v % Limb, v \div Limb, 0, 0>>

\* n * m + a as a JasonLength
Scaled(n, m, a) == MulAdd(LimbsOf(n), 1, m, a)

\* (4 * GB) / d, the quotient of 2^32
QuotientOf4GB(d) ==
  LET q2 == Limb \div d
      r2 == Limb % d
      q1 == (r2 * Limb) \div d
  IN q2 * Limb + q1

\* nrs[i] of the test, i counted from 1
nrs(test, i) ==
  IF test = "FixedArraysSizes"
  THEN <<1, 2, (64 * 1024) \div 127 - 1, (64 * 1024) \div 127,
         QuotientOf4GB(127), QuotientOf4GB(127) + 1>>[i]
  ELSE <<1, 2, (64 * 1024) \div 130, (64 * 1024) \div 130 + 1,
         QuotientOf4GB(132) - 1, QuotientOf4GB(132)>>[i]

\* byteSizes with the one-byte header kept for the second row
byteSizesNarrow(test, i) ==
  IF test = "FixedArraysSizes"
  THEN <<Scaled(1, 127, 1 + 1),
         Scaled(2, 127, 1 + 1),
         Scaled((64 * 1024) \div 127 - 1, 127, 1 + 8),
         Scaled((64 * 1024) \div 127, 127, 1 + 8),
         Scaled(QuotientOf4GB(127), 127, 1 + 8),
         Scaled(QuotientOf4GB(127) + 1, 127, 1 + 8)>>[i]
  ELSE <<Scaled(1, 128, 1 + 1 + 1),
         Scaled(2, 130, 1 + 8),
         Scaled((64 * 1024) \div 130, 130, 1 + 8),
         Scaled((64 * 1024) \div 130 + 1, 132, 1 + 8),
         Scaled(QuotientOf4GB(132) - 1, 132, 1 + 8),
         Scaled(QuotientOf4GB(132), 136, 1 + 8 + 8)>>[i]

\* byteSizes[i] of the test, i counted from 1
byteSizes(test, i) ==
  IF test = "FixedArraysSizes"
  THEN <<Scaled(1, 127, 1 + 1),
         Scaled(2, 127, 1 + 8),
         Scaled((64 * 1024) \div 127 - 1, 127, 1 + 8),
         Scaled((64 * 1024) \div 127, 127, 1 + 8),
         Scaled(QuotientOf4GB(127), 127, 1 + 8),
         Scaled(QuotientOf4GB(127) + 1, 127, 1 + 8)>>[i]
  ELSE <<Scaled(1, 128, 1 + 1 + 1),
         Scaled(2, 130, 1 + 8),
         Scaled((64 * 1024) \div 130, 130, 1 + 8),
         Scaled((64 * 1024) \div 130 + 1, 132, 1 + 8),
         Scaled(QuotientOf4GB(132) - 1, 132, 1 + 8),
         Scaled(QuotientOf4GB(132), 136, 1 + 8 + 8)>>[i]

\* the bytes of one entry: the string x as an array element, the attribute
\* name and the string x as an object member
EntryBytes(test) == IF test = "FixedArraysSizes" THEN 127 ELSE 10 + 118

\* TagsAccepted without the exception for an object of one pair
TagsAcceptedUnsorted(test, i) ==
  IF test = "FixedArraysSizes" THEN 2..5
  ELSE IF test = "ObjectsSizesSorted" THEN 11..14
  ELSE 15..18

\* the tags the test accepts for its row
TagsAccepted(test, i) ==
  IF test = "FixedArraysSizes" THEN 2..5
  ELSE IF test = "ObjectsSizesSorted" \/ nrs(test, i) = 1 THEN 11..14
  ELSE 15..18

InitLarge ==
  /\ input = <<>> /\ multi = FALSE /\ pos = 0 /\ pc = "idle" /\ msg = ""
  /\ nr = 0 /\ stack = <<>> /\ buf = <<>> /\ bstack = <<>> /\ calls = <<>>
  /\ nm = NoNumber /\ st = NoString /\ prev = NoPrev
  /\ \E t \in {"FixedArraysSizes", "ObjectsSizesSorted", "ObjectsSizesUnsorted"} :
        tb = [NoTest EXCEPT !.test = t, !.i = 1, !.at = "row"]

Untested ==
  UNCHANGED <<input, multi, pos, pc, msg, nr, stack, buf, bstack, calls, nm,
              st, prev>>

\* JasonBuilder b; b.reserve(...); b.add(Jason(JasonType::Array or Object))
TestOpen ==
  /\ tb.at = "row"
  /\ tb' = [tb EXCEPT !.at = "open", !.n = 0, !.size = Zero64, !.tag = 0,
                       !.length = 0, !.found = FALSE]
  /\ Untested

\* the loop of b.add(...), nrs[i] times
TestFill ==
  /\ tb.at = "open"
  /\ tb' = [tb EXCEPT !.at = "filled", !.n = nrs(tb.test, tb.i)]
  /\ Untested

\* b.close(): a header of 1 + h bytes, the entries, w bytes of index table
\* for each entry and a trailer of t bytes, under some array or object tag;
\* then what the slice reads back
TestClose ==
  /\ tb.at = "filled"
  /\ \E h \in {1, 8}, w \in {0, 1, 2, 4, 8}, t \in {0, 8}, tag \in 2..18,
        len \in {tb.n - 1, tb.n, tb.n + 1}, found \in BOOLEAN :
        tb' = [tb EXCEPT !.at = "closed",
                         !.size = Scaled(tb.n, EntryBytes(tb.test) + w, 1 + h + t),
                         !.tag = tag, !.length = len, !.found = found]
  /\ Untested

\* checkBuild(s, type, byteSizes[i]) and the assertions after it
TestCheck ==
  /\ tb.at = "closed"
  /\ tb' = [tb EXCEPT !.at =
              IF /\ tb.size = byteSizes(tb.test, tb.i)
                 /\ tb.tag \in TagsAccepted(tb.test, tb.i)
                 /\ tb.length = nrs(tb.test, tb.i)
                 /\ tb.found
              THEN "passed" ELSE "failed"]
  /\ Untested

\* i++ and the next row of the test
TestNext ==
  /\ tb.at = "passed"
  /\ tb' = [tb EXCEPT !.at = IF tb.i < 6 THEN "row" ELSE "end",
                       !.i = IF tb.i < 6 THEN tb.i + 1 ELSE tb.i]
  /\ Untested

NextLarge == TestOpen \/ TestFill \/ TestClose \/ TestCheck \/ TestNext

SpecLarge == InitLarge /\ [][NextLarge]_vars

TypeOK ==
  /\ pos \in 0..Size
  /\ pc \in {"idle", "done", "error", "parseInternal", "parseJson", "parseTrue",
             "parseFalse", "parseNull", "parseNumber", "scanDigits",
             "scanExponent", "numberPoint", "scanFractional", "numberExponent",
             "numberScale", "parseString", "parseArray", "parseArrayNext",
             "parseObject", "parseObjectKey", "parseObjectColon",
             "parseObjectNext"}
  /\ (pc = "error") = (msg # "")
  /\ \A k \in 1..Len(buf) : buf[k] \in 0..255

----------------------------------------------------------------------------
(* What the claims speak of.                                               *)

Terminal == pc \in {"done", "error"}

IsValueCall(c) == c.op \notin {"addArray", "addObject", "reportAdd"}

\* the complete top-level values emitted so far, in the order of emission
TopValues == SelectSeq(calls, LAMBDA c : c.depth = 0 /\ IsValueCall(c))

\* the input positions from p on that hold no whitespace byte
NonWhite(p) == {k \in p..(Size - 1) : ~isWhiteSpace(At(k))}

Least(S) == CHOOSE k \in S : \A j \in S : k <= j

\* the input holds no value: whitespace only, after the byte order mark if any
NoValueInput == NonWhite(IF HasBOM THEN 3 ELSE 0) = {}

----------------------------------------------------------------------------
\* C1: with multi = false, parse returns only with count 1, one top-level
\* value emitted and nothing but whitespace after it; once the first value is
\* complete, a later byte that is no whitespace makes parse throw "expecting
\* EOF" with errorPos() the index of the first such byte.
C1_SingleValueThenEOF ==
  (~multi /\ Terminal /\ (pc = "done" \/ Len(TopValues) > 0)) =>
     /\ Len(TopValues) = 1
     /\ LET rest == NonWhite(TopValues[1].end)
        IN IF rest = {}
           THEN pc = "done" /\ nr = 1 /\ pos = Size
           ELSE pc = "error" /\ msg = ErrEOF /\ errorPos = Least(rest)

\* a value, whitespace, then a byte that is no whitespace: "expecting EOF"
\* is thrown at that byte
C1_Witness ==
  /\ ~multi /\ pc = "error" /\ msg = ErrEOF
  /\ Len(TopValues) = 1 /\ errorPos > TopValues[1].end

----------------------------------------------------------------------------
\* the byte a value of the given call ends with, for the calls whose text
\* has a fixed last byte
LastByteOf(op) ==
  CASE op = "close" -> {93, 125}
    [] op = "string" -> {34}
    [] op \in {"addTrue", "addFalse"} -> {101}
    [] op = "addNull" -> {108}
    [] OTHER -> 48..57

\* the values emitted for the innermost open container
Children ==
  LET d == Len(bstack)
      opens == {k \in 1..Len(calls) :
                  calls[k].op \in {"addArray", "addObject"} /\ calls[k].depth = d - 1}
      from == CHOOSE k \in opens : \A j \in opens : j <= k
  IN SelectSeq(SubSeq(calls, from + 1, Len(calls)),
               LAMBDA c : c.depth = d /\ IsValueCall(c))

\* C2: with multi = true, the count parse returns is the number of top-level
\* values emitted, and they were emitted in input order, each ending where
\* its text ends; whenever parseJson has returned to its caller, that caller
\* has received exactly one value more: parseInternal one more than it has
\* counted, parseArray one per reportAdd, parseObject one name and one value
\* per reportAdd.
C2_CountIsValuesEmitted ==
  /\ (multi /\ pc = "done") =>
        /\ nr = Len(TopValues)
        /\ \A k \in 1..Len(TopValues) :
              /\ TopValues[k].end >= 1
              /\ At(TopValues[k].end - 1) \in LastByteOf(TopValues[k].op)
              /\ k > 1 => TopValues[k - 1].end < TopValues[k].end
  /\ pc = "parseInternal" => Len(TopValues) = nr + 1
  /\ pc = "parseArrayNext" => Len(Children) = Len(Top(bstack).index)
  /\ pc = "parseObjectNext" => Len(Children) = 2 * Len(Top(bstack).index)

\* three values were parsed in multi-value mode
C2_Witness == multi /\ pc = "done" /\ nr = 3 /\ Len(TopValues) = 3

----------------------------------------------------------------------------
\* C3 as claimed: with multi = true an input that holds no value is accepted
\* and parse returns 0.
C3_EmptyInputReturnsZero ==
  (multi /\ Terminal /\ NoValueInput) => (pc = "done" /\ nr = 0)

\* C3: with multi = true an input that holds no value makes parse throw
\* "expecting item" at the end of the input; parse never returns a count
\* below 1.
C3_EmptyInputThrows ==
  /\ (multi /\ Terminal /\ NoValueInput) =>
        (pc = "error" /\ msg = ErrItem /\ pos = Size /\ calls = <<>>)
  /\ pc = "done" => nr >= 1

\* whitespace only, in multi-value mode: thrown
C3_Witness ==
  multi /\ NoValueInput /\ Size > 0 /\ pc = "error" /\ msg = ErrItem

----------------------------------------------------------------------------
\* C4: parse throws, with multi = false and with multi = true, on every input
\* that holds a trailing comma, a single-quoted string, an unquoted key, a
\* comment, a hex literal, a literal with a leading zero, a leading plus, a
\* bare .5, a bare 5. or two decimal points.
C4_RejectedInputsThrow ==
  (Terminal /\ input \in Rejected) => pc = "error"

----------------------------------------------------------------------------
\* the exact value of a sequence of decimal digits, on eight limbs: no
\* sequence of fewer than 38 digits wraps
Exact(d) ==
  LET f[k \in 0..Len(d)] ==
        IF k = 0 THEN <<0, 0, 0, 0, 0, 0, 0, 0>>
        ELSE MulAdd(f[k - 1], 1, 10, d[k])
  IN f[Len(d)]

\* a 64-bit value on eight limbs
Wide(x) == x \o <<0, 0, 0, 0>>

\* the value fits 64 bits
Fits64(x) == \A k \in 5..8 : x[k] = 0

\* the literals 18446744073709551615 and 18446744073709551616
MaxUInt64Text == Dec(<<1, 8, 4, 4, 6, 7, 4, 4, 0, 7, 3, 7, 0, 9, 5, 5, 1, 6, 1, 5>>)
OverUInt64Text == Dec(<<1, 8, 4, 4, 6, 7, 4, 4, 0, 7, 3, 7, 0, 9, 5, 5, 1, 6, 1, 6>>)

\* C5: for the digits fed to addDigit so far, of the number and of its
\* exponent: while isInteger holds, intValue is their exact decimal value
\* (no wrap modulo 2^64), and isInteger holds exactly as long as that value
\* is at most 2^64 - 1.  18446744073709551615 is emitted by addUInt with
\* that value, 18446744073709551616 by addDouble.
C5_IntValueExactUntilOverflow ==
  /\ \A v \in {nm.numberValue, nm.exponent} :
        /\ v.isInteger => Wide(v.intValue) = Exact(v.digits)
        /\ v.isInteger <=> Fits64(Exact(v.digits))
  /\ (Terminal /\ input = MaxUInt64Text) =>
        /\ pc = "done" /\ Len(calls) = 1 /\ calls[1].op = "addUInt"
        /\ calls[1].u64 = <<65535, 65535, 65535, 65535>>
  /\ (Terminal /\ input = OverUInt64Text) =>
        /\ pc = "done" /\ Len(calls) = 1 /\ calls[1].op = "addDouble"
        /\ calls[1].ip = nm.numberValue.digits

\* 18446744073709551616 was parsed: the twentieth digit made the
\* accumulator a double
C5_Witness ==
  /\ pc = "done" /\ input = OverUInt64Text
  /\ ~nm.numberValue.isInteger /\ Len(nm.numberValue.digits) = 20
  /\ nm.numberValue.intValue = OverflowThreshold

----------------------------------------------------------------------------
\* C6: a literal whose integer part is directly followed by an exponent part
\* is accepted with multi = false: parse returns 1 and the number is emitted
\* by addDouble, scaled by its exponent.
C6_ExponentWithoutFraction ==
  (~multi /\ Terminal /\ input \in ExponentLiterals) =>
     /\ pc = "done" /\ nr = 1
     /\ \E k \in 1..Len(calls) : calls[k].op = "addDouble" /\ calls[k].ep # <<>>

----------------------------------------------------------------------------
\* C7: a literal that starts with '-' and is the whole input is emitted by
\* addNegInt or as a double of negative sign.
C7_MinusIsApplied ==
  (pc = "done" /\ Size > 0 /\ At(0) = 45 /\ Len(calls) = 1) =>
     \/ calls[1].op = "addNegInt"
     \/ calls[1].op = "addDouble" /\ calls[1].neg

----------------------------------------------------------------------------
\* the UTF-8 encoding of a code point
Utf8(v) ==
  IF v < 128 THEN <<v>>
  ELSE IF v < 2048 THEN <<192 + (v \div 64), 128 + (v % 64)>>
  ELSE IF v < 65536
  THEN <<224 + (v \div 4096), 128 + ((v \div 64) % 64), 128 + (v % 64)>>
  ELSE <<240 + (v \div 262144), 128 + ((v \div 4096) % 64),
         128 + ((v \div 64) % 64), 128 + (v % 64)>>

\* the code unit of the escape \uXXXX that starts at p, -1 if none starts there
UnitAt(p, stop) ==
  IF p + 6 <= stop /\ At(p) = 92 /\ At(p + 1) = 117
       /\ \A j \in 2..5 : HexValue(At(p + j)) >= 0
  THEN HexValue(At(p + 2)) * 4096 + HexValue(At(p + 3)) * 256
         + HexValue(At(p + 4)) * 16 + HexValue(At(p + 5))
  ELSE -1

IsHigh(v) == v >= 55296 /\ v <= 56319
IsLow(v) == v >= 56320 /\ v <= 57343

\* the byte a two-byte escape stands for
Unescaped(e) ==
  CASE e = 98 -> 8 [] e = 102 -> 12 [] e = 110 -> 10 [] e = 114 -> 13
    [] e = 116 -> 9 [] OTHER -> e

\* the first backslash in p .. stop-1, stop if there is none
NextBackslash(p, stop) ==
  LET S == {k \in p..(stop - 1) : At(k) = 92}
  IN IF S = {} THEN stop ELSE Least(S)

\* the payload the text p .. stop-1 of a string stands for: a high surrogate
\* escape and the low surrogate escape right after it give one code point,
\* any other escape its own, and the other bytes stand for themselves
RECURSIVE Decoded(_, _)
Decoded(p, stop) ==
  IF p >= stop THEN <<>>
  ELSE IF At(p) # 92
  THEN SubSeq(input, p + 1, NextBackslash(p, stop))
         \o Decoded(NextBackslash(p, stop), stop)
  ELSE IF At(p + 1) # 117
  THEN <<Unescaped(At(p + 1))>> \o Decoded(p + 2, stop)
  ELSE LET v == UnitAt(p, stop)
           w == UnitAt(p + 6, stop)
       IN IF IsHigh(v) /\ IsLow(w)
          THEN Utf8(65536 + (v - 55296) * 1024 + (w - 56320)) \o Decoded(p + 12, stop)
          ELSE Utf8(v) \o Decoded(p + 6, stop)

\* C8: in a string that is the whole first value of the input, a high
\* surrogate escape directly followed by a low surrogate escape gives the
\* four bytes of their code point, every other surrogate escape keeps its
\* own three bytes, and the length in the tag counts them so.
C8_SurrogatePairBytes ==
  (pc = "done" /\ Size > 0 /\ Size <= 64 /\ At(0) = 34 /\ Len(calls) = 1
     /\ ~st.large) =>
     LET want == Decoded(1, calls[1].end - 1)
     IN /\ SubSeq(buf, 2, Len(buf)) = want
        /\ buf[1] = 64 + Len(want)

----------------------------------------------------------------------------
\* where the first string of the input opens: at the start, right after an
\* opening bracket or brace, or after "[1,"; -1 otherwise
StringOpen ==
  IF Size > 0 /\ At(0) = 34 THEN 0
  ELSE IF Size > 1 /\ At(0) \in {91, 123} /\ At(1) = 34 THEN 1
  ELSE IF Size > 3 /\ SubSeq(input, 1, 4) = <<91, 49, 44, 34>> THEN 3
  ELSE -1

\* the first position from p on whose byte is a quote, a backslash, a
\* control byte or no ASCII byte
NextSpecial(p) ==
  LET S == {k \in p..(Size - 1) :
              At(k) = 34 \/ At(k) = 92 \/ At(k) < 32 \/ At(k) >= 128}
  IN IF S = {} THEN Size ELSE Least(S)

NoControl == [kind |-> "none", at |-> 0, from |-> 0]

\* the number of continuation bytes a UTF-8 leader announces, 0 if b is none
Follows(b) ==
  IF b >= 192 /\ b <= 223 THEN 1
  ELSE IF b >= 224 /\ b <= 239 THEN 2
  ELSE IF b >= 240 /\ b <= 247 THEN 3
  ELSE 0

\* reading well-formed string text from p on (p starts a character): the
\* first control byte, where it stands (kind "char": where a character
\* starts; kind "cont": where a continuation byte of the UTF-8 sequence that
\* starts at from is due), or kind "none" when the text ends or is ill-formed
\* before any control byte
RECURSIVE ControlByte(_)
ControlByte(p) ==
  IF p >= Size THEN NoControl
  ELSE LET b == At(p)
           f == Follows(b)
           bad == {j \in 1..f : p + j >= Size \/ At(p + j) \div 64 # 2}
       IN IF b < 32 THEN [kind |-> "char", at |-> p, from |-> p]
          ELSE IF b = 34 THEN NoControl
          ELSE IF b = 92
          THEN IF p + 1 < Size /\ At(p + 1) \in {34, 47, 92, 98, 102, 110, 114, 116}
               THEN ControlByte(p + 2)
               ELSE IF UnitAt(p, Size) >= 0 THEN ControlByte(p + 6)
               ELSE NoControl
          ELSE IF b < 128 THEN ControlByte(NextSpecial(p))
          ELSE IF f = 0 THEN NoControl
          ELSE IF bad = {} THEN ControlByte(p + f + 1)
          ELSE IF p + Least(bad) < Size /\ At(p + Least(bad)) < 32
          THEN [kind |-> "cont", at |-> p + Least(bad), from |-> p]
          ELSE NoControl

\* the first unescaped control byte of the first string of the input
FirstControl ==
  IF StringOpen >= 0 /\ \E k \in (StringOpen + 1)..(Size - 1) : At(k) < 32
  THEN ControlByte(StringOpen + 1)
  ELSE NoControl

\* C9 as claimed: a string with an unescaped control byte makes parse throw
\* "scanString: Found control character." with errorPos() the index of
\* that byte.
C9_ControlByteMessage ==
  (Terminal /\ FirstControl.kind # "none") =>
     (pc = "error" /\ msg = ErrControl /\ errorPos = FirstControl.at)

\* C9: a string (value or attribute name) whose text is well-formed up to
\* its first unescaped control byte makes parse throw with errorPos() the
\* index of that byte.  Where a character starts the message is
\* "scanString: Found control character.", whatever number of bytes
\* remains; where a continuation byte of a UTF-8 sequence is due it is that
\* message when 16 bytes or more remained at the start of the sequence, and
\* else that message or "scanString: invalid UTF-8 sequence".
C9_ControlByteThrows ==
  (Terminal /\ FirstControl.kind # "none") =>
     /\ pc = "error"
     /\ errorPos = FirstControl.at
     /\ FirstControl.kind = "char" => msg = ErrControl
     /\ FirstControl.kind = "cont" =>
          /\ msg \in {ErrControl, ErrUtf8Seq}
          /\ Size - FirstControl.from >= BulkMin => msg = ErrControl

\* a control byte after other text of an attribute name, met by the bulk copy
C9_Witness ==
  /\ pc = "error" /\ msg = ErrControl /\ FirstControl.kind = "char"
  /\ errorPos = FirstControl.at /\ errorPos >= StringOpen + 2
  /\ StringOpen = 1 /\ At(0) = 123 /\ Size - (StringOpen + 1) >= BulkMin

----------------------------------------------------------------------------
\* the bytes a string's header takes, and its payload so far
HeaderLen(s) == IF s.large THEN 9 ELSE 1
PayloadOf(b, s) == SubSeq(b, s.base + HeaderLen(s) + 1, Len(b))

IsPrefix(a, b) == Len(a) <= Len(b) /\ SubSeq(b, 1, Len(a)) = a

\* The layout of a string alone: every round of parseString keeps the bytes
\* before base and the payload written so far but for its last three bytes,
\* which a low surrogate may retract, also when it moves the payload eight
\* bytes forward, which it does at most once; at the closing quote a
\* payload of n <= 127 bytes leaves 1 + n bytes from base on, the tag
\* 0x40 + n first, a longer one 9 + n bytes, the tag 0x0c and n in eight
\* little-endian bytes first; the payload of a string without escapes is
\* its text.
C10_StringLayout ==
  [][pc = "parseString" =>
       LET base == st.base
           old == PayloadOf(buf, st)
           new == PayloadOf(buf', st')
           len == Len(old)
       IN /\ st'.base = base
          /\ st.large => st'.large
          /\ SubSeq(buf', 1, base) = SubSeq(buf, 1, base)
          /\ \/ IsPrefix(old, new)
             \/ len >= 3 /\ IsPrefix(SubSeq(old, 1, len - 3), new)
             \/ len < 3 /\ st.highSurrogate # 0
          /\ pc' \notin {"parseString", "error"} =>
               LET n == Len(new)
               IN /\ IsPrefix(old, new)
                  /\ st'.large = (n > ShortMax)
                  /\ Len(buf') = base + (IF n > ShortMax THEN 9 ELSE 1) + n
                  /\ n <= ShortMax => buf'[base + 1] = 64 + n
                  /\ n > ShortMax =>
                       /\ buf'[base + 1] = 12
                       /\ buf'[base + 2] = n % 256
                       /\ buf'[base + 3] = n \div 256
                       /\ \A j \in 4..9 : buf'[base + j] = 0
                  /\ (At(0) = 34 /\ NextBackslash(1, pos' - 1) = pos' - 1) =>
                       new = SubSeq(input, 2, pos' - 1)
  ]_vars

\* the number of escapes a text of few escapes has
FewEscapes == Cardinality({k \in 0..(Size - 1) : At(k) = 92}) <= 8

\* C10: a string that is the whole first value of the input leaves, from
\* base on, the tag 0x40 + n and its n decoded bytes in input order if
\* n <= 127, and else the tag 0x0c, n in eight little-endian bytes and the
\* n decoded bytes, which the shift at promotion has not changed.
C10_StringBytes ==
  (pc = "done" /\ Size > 0 /\ At(0) = 34 /\ Len(calls) = 1 /\ FewEscapes) =>
     LET want == Decoded(1, calls[1].end - 1)
         n == Len(want)
     IN /\ st.large = (n > ShortMax)
        /\ buf = (IF n > ShortMax
                  THEN <<12, n % 256, n \div 256, 0, 0, 0, 0, 0, 0>>
                  ELSE <<64 + n>>) \o want

----------------------------------------------------------------------------
\* C11: a text that parse() accepted is accepted again with whitespace added
\* where JSON allows it, with the same count returned and the same bytes in
\* the Builder.
C11_WhitespaceIrrelevance ==
  (prev.made /\ Terminal) => (pc = "done" /\ nr = prev.nr /\ buf = prev.buf)

----------------------------------------------------------------------------
\* the messages parseArray and parseObject throw at a byte they did not expect
StructuralErrors == {ErrArrayNext, ErrObjectKey, ErrObjectColon, ErrObjectNext}

\* the last index before p that holds no whitespace byte, -1 if there is none
PrevNonWhite(p) ==
  LET S == {k \in 0..(p - 1) : ~isWhiteSpace(At(k))}
  IN IF S = {} THEN -1 ELSE CHOOSE k \in S : \A j \in S : j <= k

\* the index of the byte an error is about, where the input alone tells it:
\* the first byte after a complete element, attribute name or value that is
\* neither whitespace nor what may follow there; the first such byte after
\* '{' or ',' that opens no attribute name; the first byte after the only
\* top-level value; the first control byte of a string; -1 otherwise
Offending ==
  IF msg \in {ErrArrayNext, ErrObjectColon, ErrObjectNext} /\ calls # <<>>
       /\ NonWhite(calls[Len(calls)].end) # {}
  THEN Least(NonWhite(calls[Len(calls)].end))
  ELSE IF msg = ErrObjectKey /\ pos < Size /\ PrevNonWhite(pos) >= 0
            /\ At(PrevNonWhite(pos)) \in {44, 123}
  THEN pos
  ELSE IF msg = ErrEOF /\ Len(TopValues) = 1
  THEN Least(NonWhite(TopValues[1].end))
  ELSE IF msg = ErrControl /\ FirstControl.kind = "char"
  THEN FirstControl.at
  ELSE -1

\* C12: when parse throws at a byte it did not expect, errorPos() is the
\* index of that byte or the index after it, never an index before it; so
\* for the errors parseArray and parseObject throw after an element, an
\* attribute name or a value.
C12_ErrorPosNotBefore ==
  (pc = "error" /\ Offending >= 0) =>
     (errorPos = Offending \/ errorPos = Offending + 1)

----------------------------------------------------------------------------
\* reading well-formed string text from p on (p starts a character): the
\* index of the first byte 0x80..0xBF that stands where a character starts,
\* -1 when the text ends or is ill-formed otherwise before such a byte
RECURSIVE StrayByte(_)
StrayByte(p) ==
  IF p >= Size THEN -1
  ELSE LET b == At(p)
           f == Follows(b)
       IN IF b < 32 \/ b = 34 THEN -1
          ELSE IF b = 92
          THEN IF p + 1 < Size /\ At(p + 1) \in {34, 47, 92, 98, 102, 110, 114, 116}
               THEN StrayByte(p + 2)
               ELSE IF UnitAt(p, Size) >= 0 THEN StrayByte(p + 6)
               ELSE -1
          ELSE IF b < 128 THEN StrayByte(NextSpecial(p))
          ELSE IF b < 192 THEN p
          ELSE IF f > 0 /\ \A j \in 1..f : p + j < Size /\ At(p + j) \div 64 = 2
          THEN StrayByte(p + f + 1)
          ELSE -1

\* the first stray continuation byte of the first string of the input
FirstStray ==
  IF StringOpen >= 0
       /\ \E k \in (StringOpen + 1)..(Size - 1) : At(k) >= 128 /\ At(k) < 192
  THEN StrayByte(StringOpen + 1)
  ELSE -1

\* C13: a string with a byte 0x80..0xBF where a UTF-8 leader is expected is
\* never accepted: parse throws "scanString: Illegal UTF-8 byte.", for
\* every such byte and however many input bytes remain.
C13_StrayContinuationByte ==
  (Terminal /\ FirstStray >= 0) => (pc = "error" /\ msg = ErrUtf8Byte)

----------------------------------------------------------------------------
\* x < 2^(8 * w) for a JasonLength x on limbs and w in {1, 2, 4}
FitsBytes(x, w) ==
  IF w = 1 THEN x[1] < 256 /\ x[2] = 0 /\ x[3] = 0 /\ x[4] = 0
  ELSE IF w = 2 THEN x[2] = 0 /\ x[3] = 0 /\ x[4] = 0
  ELSE x[3] = 0 /\ x[4] = 0

----------------------------------------------------------------------------
ObjectTests == {"ObjectsSizesSorted", "ObjectsSizesUnsorted"}

\* the tag range of an object of n pairs by the setting of sortAttributeNames
ObjectTags(test, n) ==
  IF test = "ObjectsSizesSorted" \/ n = 1 THEN 11..14 ELSE 15..18

ObjectSize(n) ==
  IF FitsBytes(Scaled(n, 128 + 1, 1 + 1), 1) THEN Scaled(n, 128 + 1, 1 + 1)
  ELSE IF FitsBytes(Scaled(n, 128 + 2, 1 + 8), 2) THEN Scaled(n, 128 + 2, 1 + 8)
  ELSE IF FitsBytes(Scaled(n, 128 + 4, 1 + 8), 4) THEN Scaled(n, 128 + 4, 1 + 8)
  ELSE Scaled(n, 128 + 8, 1 + 8 + 8)

----------------------------------------------------------------------------
\* C16: while parseString runs, a non-zero highSurrogate stands for the
\* last three bytes of the buffer, and one round of the loop either keeps
\* all bytes written so far or replaces exactly those three bytes by the
\* four bytes of the combined code point, whether or not the bulk copy
\* moved bytes in that round.
C16_RetractsOnlyHighSurrogate ==
  [][(pc = "parseString" /\ pc' = "parseString") =>
       LET old == PayloadOf(buf, st)
           new == PayloadOf(buf', st')
           len == Len(old)
       IN /\ st.highSurrogate # 0 =>
               /\ len >= 3
               /\ SubSeq(old, len - 2, len) = Utf8Of3(st.highSurrogate)
          /\ \/ IsPrefix(old, new)
             \/ /\ st.highSurrogate # 0
                /\ Len(new) = len - 3 + 4
                /\ IsPrefix(SubSeq(old, 1, len - 3), new)]_vars

----------------------------------------------------------------------------
IsOpen(c) == c.op \in {"addArray", "addObject"}

\* the number of calls among the first k that satisfy Is
CountCalls(k, Is(_)) == Cardinality({j \in 1..k : Is(calls[j])})

IsClose(c) == c.op = "close"

\* the call that opened the container closed by call j
OpenOf(j) ==
  LET o == {i \in 1..(j - 1) : IsOpen(calls[i]) /\ calls[i].depth = calls[j].depth}
  IN IF o = {} THEN 0 ELSE CHOOSE i \in o : \A k \in o : k <= i

\* what was issued directly inside the container opened by call i and
\* closed by call j: the reportAdd calls and the starts of its children
DirectCalls(i, j) ==
  SelectSeq(SubSeq(calls, i + 1, j - 1),
            LAMBDA c : c.depth = calls[i].depth + 1 /\ c.op # "close")

\* C17: when parse returns, the opens and closes issued are balanced and
\* no container is left open; inside each container the calls are one
\* reportAdd(base) followed by the element, for every element of an array,
\* and one reportAdd(base) followed by the name and the value, for every
\* pair of an object, base being the offset the container starts at; the
\* index of the container has one entry per element or pair.
C17_BuilderCallsNested ==
  pc = "done" =>
    /\ bstack = <<>> /\ stack = <<>>
    /\ \A k \in 1..Len(calls) : CountCalls(k, IsClose) <= CountCalls(k, IsOpen)
    /\ CountCalls(Len(calls), IsClose) = CountCalls(Len(calls), IsOpen)
    /\ \A k \in 1..Len(calls) : calls[k].op = "reportAdd" => calls[k].depth >= 1
    /\ \A j \in 1..Len(calls) :
         IsClose(calls[j]) =>
           LET i == OpenOf(j)
               d == DirectCalls(i, j)
               n == calls[j].len
               per == IF calls[i].op = "addArray" THEN 2 ELSE 3
           IN /\ i >= 1
              /\ Len(d) = per * n
              /\ \A m \in 1..Len(d) :
                    IF m % per = 1
                    THEN d[m].op = "reportAdd" /\ d[m].base = calls[j].base
                    ELSE /\ d[m].op # "reportAdd"
                         /\ (per = 3 /\ m % per = 2) => d[m].op = "string"

\* an object whose value is an array of two elements, the second of them
\* an object again: three containers closed from the inside out
C17_Witness ==
  /\ pc = "done"
  /\ \E j \in 1..Len(calls), k \in 1..Len(calls), l \in 1..Len(calls) :
        /\ j < k /\ k < l
        /\ IsClose(calls[j]) /\ IsClose(calls[k]) /\ IsClose(calls[l])
        /\ OpenOf(l) >= 1 /\ OpenOf(l) < OpenOf(k) /\ OpenOf(k) < OpenOf(j)
        /\ calls[OpenOf(j)].op = "addObject" /\ calls[j].len = 1
        /\ calls[OpenOf(k)].op = "addArray" /\ calls[k].len = 2
        /\ calls[OpenOf(l)].op = "addObject" /\ calls[l].len = 1
        /\ calls[l].base < calls[k].base /\ calls[k].base < calls[j].base

----------------------------------------------------------------------------
\* C18: in every state of a parse, thrown or not, 0 <= _pos <= _size; the
\* BOM is skipped only over three bytes that are there; no step leaves the
\* cursor before the place it found it, since every unconsume() takes back
\* a consume() that returned a byte; and where a step ends with an
\* unconsume(), the cursor stands on that byte: the first byte of a number
\* or the digit the next scan starts with.
C18_CursorInBounds ==
  /\ [](0 <= pos /\ pos <= Size)
  /\ [][/\ pos' >= pos
        /\ pc = "idle" => (pos' = 0 \/ (pos' = 3 /\ Size >= 3))
        /\ (pc = "parseJson" /\ pc' = "parseNumber") =>
              (pos' < Size /\ pos' + 1 = pos + JSONSkipWhiteSpace(pos, Size - pos) + 1)
        /\ (pc' \in {"scanDigits", "scanFractional", "scanExponent"} /\ pc' # pc) =>
              (pos' >= 0 /\ pos' < Size /\ isDigit(At(pos')))
        /\ (pc \in {"scanDigits", "scanFractional", "scanExponent"}
            /\ pc' \notin {pc, "error"}) =>
              (pos' = Size \/ ~isDigit(At(pos')))]_vars

\* after a BOM, scanDigits has taken back the byte that ended the digits
C18_Witness ==
  /\ HasBOM
  /\ pc = "numberPoint" /\ pos > 3 /\ pos < Size
  /\ isDigit(At(pos - 1)) /\ ~isDigit(At(pos))

====
